---- MODULE Spec2Model ----
(***************************************************************************)
(* Model of prost-derive/src/field/mod.rs: the field descriptor dispatcher *)
(* (Field::new, Field::new_oneof, Field::tags), the attribute collectors   *)
(* (prost_attrs, prost_nested_attrs) and the set-once guards (set_option,  *)
(* set_bool).                                                              *)
(*                                                                         *)
(* An attribute attachment `#[...]` of a member is abstracted to the facts *)
(* the code of mod.rs looks at:                                            *)
(*   path    "prost" or "foreign"           (path.is_ident("prost"))       *)
(*   form    "list"  Meta::List, "other" Meta::Path / Meta::NameValue,     *)
(*           "unparseable"  Attribute::parse_meta returns Err              *)
(*   lit     the list holds a NestedMeta::Lit item                         *)
(*   markers the bare words (Meta::Path items) of the list                 *)
(*   bad     the remaining shape is invalid for a kind whose marker is     *)
(*           present (the kind classifier returns Err)                     *)
(*   tag     the explicit `tag` attribute, an Option                       *)
(*   tags    the explicit `tags` attribute, a list                         *)
(* An Option<T> is a sequence of length at most one.  u32 is scaled to     *)
(* TagBits bits, keeping the wrap-around of `t + 1`.                       *)
(***************************************************************************)
EXTENDS Integers, Sequences, FiniteSets, TLC

\* ------------------------------------------------------------------ bounds
\* Width of a tag in the model (u32 in the code).
TagBits == 3
\* Longest attachment list of a member in the sequencing family.
MaxAttrs == 3
\* Longest sequence of set_option / set_bool calls.
MaxCalls == 4
\* Number of distinct values offered to set_option.
MaxVal == 3

TagLimit == 2 ^ TagBits
TagMax == TagLimit - 1
Tags == 0 .. TagMax
None == <<>>
Some(x) == <<x>>
OptTags == {None} \cup {Some(t) : t \in Tags}

SeqsUpTo(S, n) == UNION {[1 .. k -> S] : k \in 0 .. n}

\* ------------------------------------------------------------ data model
\* Mutant: the Message classifier tried before the Scalar one.
KindOrderMessageFirst == <<"Message", "Scalar", "Map", "Oneof", "Group">>

\* The six variants of `enum Field`; the first five in the order Field::new
\* tries their classifiers.
KindOrder == <<"Scalar", "Message", "Map", "Oneof", "Group">>
\* The order Field::new_oneof tries them.
OneofKindOrder == <<"Scalar", "Message", "Map", "Group">>

\* The bare word that makes a kind's classifier recognise a group.
KindMarker(kind) ==
    CASE kind = "Scalar" -> "scalar"
      [] kind = "Message" -> "message"
      [] kind = "Map" -> "map"
      [] kind = "Oneof" -> "oneof"
      [] kind = "Group" -> "group"

AllMarkers == {"ignore", "scalar", "message", "map", "oneof", "group"}

Attachment(path, form, lit, markers, bad, tag, tags) ==
    [path |-> path, form |-> form, lit |-> lit, markers |-> markers,
     bad |-> bad, tag |-> tag, tags |-> tags]

NonList(path, form) == Attachment(path, form, FALSE, {}, FALSE, None, <<>>)

ProstList(lit, markers, bad, tag, tags) ==
    Attachment("prost", "list", lit, markers, bad, tag, tags)

\* The Vec<Meta> of one group: what is left of an attachment once it parsed.
Metas(a) == [markers |-> a.markers, bad |-> a.bad, tag |-> a.tag, tags |-> a.tags]

OkGroup(a) == [ok |-> TRUE, err |-> "", attrs |-> Metas(a)]
ErrGroup(e) ==
    [ok |-> FALSE, err |-> e,
     attrs |-> [markers |-> {}, bad |-> FALSE, tag |-> None, tags |-> <<>>]]

IgnoreField == [kind |-> "Ignore", tags |-> <<>>]
KindField(kind, tags) == [kind |-> kind, tags |-> tags]

\* ------------------------------------------------- attribute collectors
\* The filter_map closure of prost_nested_attrs: what one attachment yields.
\* A parse_meta failure yields an Err group whatever the attachment's path;
\* a prost list yields its items, or Err at the first literal item; any
\* other meta yields nothing.
NestedOfAttr(a) ==
    IF a.form = "unparseable" THEN Some(ErrGroup("parse"))
    ELSE IF a.form = "list" /\ a.path = "prost"
         THEN Some(IF a.lit THEN ErrGroup("literal") ELSE OkGroup(a))
         ELSE None

\* Mutant: the groups collected into one Result, so that a parse failure
\* anywhere is the only thing Field::new meets.
RECURSIVE NestedAll(_)
NestedAll(as) ==
    IF as = <<>> THEN <<>> ELSE NestedOfAttr(Head(as)) \o NestedAll(Tail(as))

FirstErrOrAll(groups) ==
    IF SelectSeq(groups, LAMBDA g : ~g.ok) = <<>> THEN groups
    ELSE <<SelectSeq(groups, LAMBDA g : ~g.ok)[1]>>

prost_nested_attrs_eager(as) == FirstErrOrAll(NestedAll(as))

RECURSIVE prost_nested_attrs(_)
prost_nested_attrs(as) ==
    IF as = <<>> THEN <<>>
    ELSE NestedOfAttr(Head(as)) \o prost_nested_attrs(Tail(as))

EmptyMetas == [markers |-> {}, bad |-> FALSE, tag |-> None, tags |-> <<>>]

\* Vec<Meta> concatenation.  Two `tag` items in one list make every kind
\* classifier that reads them fail (set_option).
ConcatMetas(m, n) ==
    [markers |-> m.markers \cup n.markers,
     bad |-> m.bad \/ n.bad \/ (m.tag # None /\ n.tag # None),
     tag |-> IF m.tag # None THEN m.tag ELSE n.tag,
     tags |-> m.tags \o n.tags]

\* The three flat_map stages of prost_attrs for one attachment: a
\* parse_meta failure is dropped, only a prost list contributes, and the
\* last stage flat_maps over a Result, so that a literal item's Err yields
\* no item and the Meta items around it are kept.
AttrsOfAttr(a) ==
    IF a.form = "list" /\ a.path = "prost" THEN Metas(a) ELSE EmptyMetas

RECURSIVE prost_attrs(_)
prost_attrs(as) ==
    IF as = <<>> THEN EmptyMetas
    ELSE ConcatMetas(AttrsOfAttr(Head(as)), prost_attrs(Tail(as)))

\* Mutant: `all` in place of `any`.
AllWordAttr(key, metas) ==
    metas.markers \subseteq {key} /\ metas.tag = None /\ metas.tags = <<>>

\* word_attr(key, attr) holds for some item of the list.
AnyWordAttr(key, metas) == key \in metas.markers

\* --------------------------------------------------- kind classifiers
\* scalar / message / map / oneof / group ::Field::new: no match without
\* the kind's marker, an error when the marker is present and the rest of
\* the shape is invalid, else a descriptor.  Oneof claims its `tags` list;
\* the other kinds claim the explicit tag or else the inferred one.
NoMatch == [res |-> "none", field |-> IgnoreField, err |-> ""]
Matched(f) == [res |-> "some", field |-> f, err |-> ""]
Failed(e) == [res |-> "err", field |-> IgnoreField, err |-> e]

Classify(kind, metas, inferred) ==
    IF KindMarker(kind) \notin metas.markers THEN NoMatch
    ELSE IF metas.bad THEN Failed("invalid shape")
    ELSE IF kind = "Oneof"
         THEN IF metas.tags = <<>> THEN Failed("missing tags")
              ELSE Matched(KindField(kind, metas.tags))
         ELSE LET tag == IF metas.tag # None THEN metas.tag ELSE inferred
              IN  IF tag = None THEN Failed("missing tag")
                  ELSE Matched(KindField(kind, tag))

\* The new_oneof classifiers: no inferred tag is passed.
ClassifyOneof(kind, metas) ==
    IF KindMarker(kind) \notin metas.markers THEN NoMatch
    ELSE IF metas.bad THEN Failed("invalid shape")
    ELSE Matched(KindField(kind, metas.tag))

\* The if-let / else-if chain: the classifiers of `order` from position k
\* on, until one returns a match or an error (the `?`).  tried lists the
\* classifiers invoked.
RECURSIVE TryKinds(_, _, _, _, _)
TryKinds(order, k, metas, inferred, inOneof) ==
    IF k > Len(order)
    THEN [res |-> "none", field |-> IgnoreField, err |-> "", tried |-> order]
    ELSE LET r == IF inOneof THEN ClassifyOneof(order[k], metas)
                  ELSE Classify(order[k], metas, inferred)
         IN  IF r.res = "none"
             THEN TryKinds(order, k + 1, metas, inferred, inOneof)
             ELSE [res |-> r.res, field |-> r.field, err |-> r.err,
                   tried |-> SubSeq(order, 1, k)]

\* Field::tags.
tags(f) == IF f.kind = "Ignore" THEN <<>> ELSE f.tags

\* tags.iter().max()
MaxTag(ts) ==
    IF ts = <<>> THEN None
    ELSE Some(CHOOSE m \in {ts[j] : j \in 1 .. Len(ts)} :
                  \A j \in 1 .. Len(ts) : ts[j] <= m)

\* `t + 1` on the tag type overflows.
AddOverflows(f) == MaxTag(tags(f)) # None /\ MaxTag(tags(f))[1] + 1 >= TagLimit

\* field.tags().iter().max().map(|t| t + 1).or(inferred_tag), with the
\* wrapping addition of a build without overflow checks.
NextInferredTag(f, inferred) ==
    IF MaxTag(tags(f)) = None THEN inferred
    ELSE Some((MaxTag(tags(f))[1] + 1) % TagLimit)

\* ------------------------------------------------------ input families
ForeignList == NonList("foreign", "list")
ForeignOther == NonList("foreign", "other")
ProstOther == NonList("prost", "other")
ForeignUnparseable == NonList("foreign", "unparseable")
ProstUnparseable == NonList("prost", "unparseable")

NonGroups ==
    {ForeignList, ForeignOther, ProstOther, ForeignUnparseable, ProstUnparseable}

\* Sequencing family: members of up to MaxAttrs attachments of a few shapes.
SeqShapes ==
    NonGroups
    \cup {ProstList(TRUE, m, FALSE, None, <<>>) : m \in {{"ignore"}, {"scalar"}}}
    \cup {ProstList(FALSE, m, FALSE, None, <<>>) :
              m \in {{}, {"ignore"}, {"scalar"}, {"ignore", "scalar"}}}
    \cup {ProstList(FALSE, {"scalar"}, TRUE, None, <<>>),
          ProstList(FALSE, {"oneof"}, FALSE, None, <<1, 2>>)}

SeqMembers ==
    {[attrs |-> as, cursor |-> c] :
        as \in SeqsUpTo(SeqShapes, MaxAttrs), c \in {None, Some(5)}}

\* Kind family: one group with any set of markers.
KindMembers ==
    {[attrs |-> <<ProstList(FALSE, m, b, t, ts)>>, cursor |-> c] :
        m \in SUBSET AllMarkers, b \in BOOLEAN, t \in {None, Some(1)},
        ts \in {<<>>, <<2, 1>>}, c \in {None, Some(5)}}

\* Tag family: a group of one marker with any explicit tag or tag list,
\* followed by a group without explicit tag, from any cursor.
TagLists == {<<t>> : t \in Tags} \cup {<<t, u>> : t, u \in Tags}

TagGroups ==
    {ProstList(FALSE, {m}, FALSE, t, <<>>) :
        m \in AllMarkers \ {"oneof"}, t \in OptTags}
    \cup {ProstList(FALSE, {"oneof"}, FALSE, None, ts) : ts \in TagLists}

NextGroups ==
    {ProstList(FALSE, {m}, FALSE, None, <<>>) : m \in AllMarkers \ {"oneof"}}
    \cup {ProstList(FALSE, {"oneof"}, FALSE, None, <<1>>)}

TagMembers ==
    {[attrs |-> <<g, h>>, cursor |-> c] :
        g \in TagGroups, h \in NextGroups, c \in OptTags}

Members == SeqMembers \cup KindMembers \cup TagMembers

\* ---------------------------------------------------------------- state
VARIABLES
    attrs,          \* Field::new / new_oneof argument: the attachments
    cursor,         \* Field::new argument inferred_tag, as passed in
    nested_attrs,   \* Field::new local: Vec<Result<Vec<Meta>, Error>>
    idx,            \* position of the for loop in nested_attrs
    fields,         \* Field::new local: the descriptors pushed so far
    ignore,         \* Field::new local
    inferred_tag,   \* Field::new local (mut argument)
    calls,          \* classifier invocations: <<group index, kind, inferred_tag>>
    metas,          \* new_oneof local: the Vec<Meta> of prost_attrs
    result,         \* what the function returned
    pc,             \* position in the function
    option,         \* the slot of set_option
    b,              \* the flag of set_bool
    outcome,        \* what the last set_option / set_bool call returned
    history         \* the calls made on the slot and the flag

vars == <<attrs, cursor, nested_attrs, idx, fields, ignore, inferred_tag, calls,
          metas, result, pc, option, b, outcome, history>>

fieldVars == <<attrs, cursor, nested_attrs, idx, fields, ignore, inferred_tag,
               calls, metas, result>>
guardVars == <<option, b, outcome, history>>

Pending == [status |-> "pending", err |-> "", fields |-> <<>>]
Ok(fs) == [status |-> "Ok", err |-> "", fields |-> fs]
Err(e) == [status |-> "Err", err |-> e, fields |-> <<>>]
Panic == [status |-> "panic", err |-> "attempt to add with overflow", fields |-> <<>>]

NoOutcome == [fn |-> "", ok |-> TRUE, existing |-> None, value |-> None]

InitGuards ==
    /\ option = None
    /\ b = FALSE
    /\ outcome = NoOutcome
    /\ history = <<>>

InitLocals ==
    /\ nested_attrs = <<>>
    /\ idx = 1
    /\ fields = <<>>
    /\ ignore = FALSE
    /\ calls = <<>>
    /\ metas = EmptyMetas
    /\ result = Pending

\* Field::new is called on a member.
Init ==
    /\ \E m \in Members :
          /\ attrs = m.attrs
          /\ cursor = m.cursor
          /\ inferred_tag = m.cursor
    /\ InitLocals
    /\ InitGuards
    /\ pc = "new"

\* let nested_attrs = prost_nested_attrs(attrs); fields = Vec::new(); ignore = false
NestedAttrs ==
    /\ pc = "new"
    /\ nested_attrs' = prost_nested_attrs(attrs)
    /\ fields' = <<>>
    /\ ignore' = FALSE
    /\ idx' = 1
    /\ pc' = "loop"
    /\ UNCHANGED <<attrs, cursor, inferred_tag, calls, metas, result>>
    /\ UNCHANGED guardVars

Return(r) ==
    /\ result' = r
    /\ pc' = "done"

\* The invocations of one group's classification, appended to the log.
Invocations(g, tried, inferred) ==
    [j \in 1 .. Len(tried) |-> <<g, tried[j], inferred>>]

\* Mutant: the ensure! left out.
IgnoreConflictNever(flag) == FALSE

\* ensure!(!ignore, ...)
IgnoreConflict(flag) == flag

\* One iteration of `for attrs in nested_attrs`.
LoopBody ==
    /\ pc = "loop"
    /\ idx <= Len(nested_attrs)
    /\ LET group == nested_attrs[idx]
           m == TryKinds(KindOrder, 1, group.attrs, inferred_tag, FALSE)
       IN  IF ~group.ok
           THEN /\ Return(Err(group.err))
                /\ UNCHANGED <<idx, fields, ignore, inferred_tag, calls>>
           ELSE IF IgnoreConflict(ignore)
           THEN /\ Return(Err("ignore attribute used but other attributes were found"))
                /\ UNCHANGED <<idx, fields, ignore, inferred_tag, calls>>
           ELSE IF AnyWordAttr("ignore", group.attrs)
           THEN /\ fields' = Append(fields, IgnoreField)
                /\ ignore' = TRUE
                /\ idx' = idx + 1
                /\ UNCHANGED <<inferred_tag, calls, result, pc>>
           ELSE /\ calls' = calls \o Invocations(idx, m.tried, inferred_tag)
                /\ IF m.res = "err"
                   THEN /\ Return(Err(m.err))
                        /\ UNCHANGED <<idx, fields, ignore, inferred_tag>>
                   ELSE IF m.res = "none"
                   THEN /\ Return(Err("no type attribute"))
                        /\ UNCHANGED <<idx, fields, ignore, inferred_tag>>
                   ELSE \E overflow_checks \in BOOLEAN :
                          IF AddOverflows(m.field) /\ overflow_checks
                          THEN /\ Return(Panic)
                               /\ UNCHANGED <<idx, fields, ignore, inferred_tag>>
                          ELSE /\ inferred_tag' = NextInferredTag(m.field, inferred_tag)
                               /\ fields' = Append(fields, m.field)
                               /\ idx' = idx + 1
                               /\ UNCHANGED <<ignore, result, pc>>
    /\ UNCHANGED <<attrs, cursor, nested_attrs, metas>>
    /\ UNCHANGED guardVars

\* Ok(fields)
ReturnFields ==
    /\ pc = "loop"
    /\ idx > Len(nested_attrs)
    /\ Return(Ok(fields))
    /\ UNCHANGED <<attrs, cursor, nested_attrs, idx, fields, ignore, inferred_tag,
                   calls, metas>>
    /\ UNCHANGED guardVars

Next == NestedAttrs \/ LoopBody \/ ReturnFields

Spec == Init /\ [][Next]_vars

\* ------------------------------------------------------- Field::new_oneof
OneofShapes ==
    NonGroups
    \cup {ProstList(l, m, bd, None, <<>>) :
              l \in BOOLEAN, bd \in BOOLEAN,
              m \in {{}, {"ignore"}, {"scalar"}, {"message"}, {"map"}, {"oneof"},
                     {"group"}, {"ignore", "message"}, {"scalar", "message"},
                     {"message", "oneof"}, {"oneof", "group"}}}

OneofMembers == SeqsUpTo(OneofShapes, MaxAttrs - 1)

InitOneof ==
    /\ attrs \in OneofMembers
    /\ cursor = None
    /\ inferred_tag = None
    /\ InitLocals
    /\ InitGuards
    /\ pc = "new_oneof"

\* let attrs = prost_attrs(attrs);
ProstAttrs ==
    /\ pc = "new_oneof"
    /\ metas' = prost_attrs(attrs)
    /\ pc' = "classify"
    /\ UNCHANGED <<attrs, cursor, nested_attrs, idx, fields, ignore, inferred_tag,
                   calls, result>>
    /\ UNCHANGED guardVars

\* The classifier chain of new_oneof and its return.
ClassifyOneofField ==
    /\ pc = "classify"
    /\ LET m == TryKinds(OneofKindOrder, 1, metas, None, TRUE)
       IN  /\ calls' = calls \o Invocations(1, m.tried, None)
           /\ IF m.res = "err" THEN Return(Err(m.err))
              ELSE IF m.res = "none"
                   THEN Return(Err("no type attribute for oneof field"))
                   ELSE Return(Ok(<<m.field>>))
    /\ UNCHANGED <<attrs, cursor, nested_attrs, idx, fields, ignore, inferred_tag,
                   metas>>
    /\ UNCHANGED guardVars

NextOneof == ProstAttrs \/ ClassifyOneofField

SpecOneof == InitOneof /\ [][NextOneof]_vars

\* ------------------------------------------------ set_option / set_bool
Values == 1 .. MaxVal

\* Mutant: the value stored before the slot is tested.
set_option_overwrite(opt, value) ==
    IF opt # None
    THEN [option |-> Some(value),
          res |-> [fn |-> "set_option", ok |-> FALSE, existing |-> opt,
                   value |-> Some(value)]]
    ELSE [option |-> Some(value),
          res |-> [fn |-> "set_option", ok |-> TRUE, existing |-> None,
                   value |-> Some(value)]]

\* set_option(option, value, message): the slot afterwards and the result.
set_option(opt, value) ==
    IF opt # None
    THEN [option |-> opt,
          res |-> [fn |-> "set_option", ok |-> FALSE, existing |-> opt,
                   value |-> Some(value)]]
    ELSE [option |-> Some(value),
          res |-> [fn |-> "set_option", ok |-> TRUE, existing |-> None,
                   value |-> Some(value)]]

\* set_bool(b, message): the flag afterwards and the result.
set_bool(flag) ==
    IF flag
    THEN [b |-> flag,
          res |-> [fn |-> "set_bool", ok |-> FALSE, existing |-> None, value |-> None]]
    ELSE [b |-> TRUE,
          res |-> [fn |-> "set_bool", ok |-> TRUE, existing |-> None, value |-> None]]

InitSetOnce ==
    /\ attrs = <<>>
    /\ cursor = None
    /\ inferred_tag = None
    /\ InitLocals
    /\ InitGuards
    /\ pc = "guards"

SetOption ==
    /\ pc = "guards"
    /\ Len(history) < MaxCalls
    /\ \E v \in Values :
          /\ option' = set_option(option, v).option
          /\ outcome' = set_option(option, v).res
          /\ history' = Append(history, <<"set_option", v>>)
    /\ UNCHANGED b
    /\ UNCHANGED fieldVars
    /\ UNCHANGED pc

SetBool ==
    /\ pc = "guards"
    /\ Len(history) < MaxCalls
    /\ b' = set_bool(b).b
    /\ outcome' = set_bool(b).res
    /\ history' = Append(history, <<"set_bool", 0>>)
    /\ UNCHANGED option
    /\ UNCHANGED fieldVars
    /\ UNCHANGED pc

NextSetOnce == SetOption \/ SetBool

SpecSetOnce == InitSetOnce /\ [][NextSetOnce]_vars

\* =================================================================
\* Properties
\* =================================================================
\* The attachments of the member that Field::new meets as groups, in
\* encounter order, read from the input.
YieldsGroup(a) == a.form = "unparseable" \/ (a.form = "list" /\ a.path = "prost")
GroupSrc == SelectSeq(attrs, YieldsGroup)

Parses(a) == a.form = "list" /\ ~a.lit
ParseErr(a) == IF a.form = "unparseable" THEN "parse" ELSE "literal"

IsProst(a) == a.path = "prost"

ConflictErr == "ignore attribute used but other attributes were found"
FixedOrder == <<"Scalar", "Message", "Map", "Oneof", "Group">>
OneofFixedOrder == <<"Scalar", "Message", "Map", "Group">>

SeqMax(ts) == CHOOSE m \in {ts[j] : j \in 1 .. Len(ts)} : \A j \in 1 .. Len(ts) : ts[j] <= m

CallsOf(g) == SelectSeq(calls, LAMBDA c : c[1] = g)

\* The cursor the claim expects after the first k descriptors: one more than
\* the largest tag of the last descriptor that claims tags, as an integer.
RECURSIVE ExpectedCursor(_)
ExpectedCursor(k) ==
    IF k = 0 THEN cursor
    ELSE IF fields[k].tags = <<>> THEN ExpectedCursor(k - 1)
         ELSE Some(SeqMax(fields[k].tags) + 1)

\* C1: after every group classified as a non-Ignore descriptor the cursor
\* is one greater than the largest tag the descriptor claims, for every tag
\* of the tag type, and that cursor is what the next group's classifiers
\* receive; an Ignore descriptor leaves the cursor unchanged.
C1_CursorAdvancesPastMaxTag ==
    /\ pc = "loop" => inferred_tag = ExpectedCursor(Len(fields))
    /\ \A j \in 1 .. Len(calls) : calls[j][3] = ExpectedCursor(calls[j][1] - 1)

\* What holds of the cursor: the same, for descriptors whose largest tag is
\* below the largest value of the tag type.
CursorAdvancesBelowTagMax ==
    (\A k \in 1 .. Len(fields) :
        fields[k].tags # <<>> => SeqMax(fields[k].tags) < TagMax)
    => C1_CursorAdvancesPastMaxTag

\* C2 as stated: with `ignore` in the first of two groups, Field::new fails
\* with the ignore conflict error whatever the second group holds, and no
\* classifier runs on the second group.
C2_IgnoreFirstAlwaysConflict ==
    (/\ pc = "done"
     /\ Len(GroupSrc) = 2
     /\ \A g \in 1 .. 2 : IsProst(GroupSrc[g])
     /\ Parses(GroupSrc[1])
     /\ "ignore" \in GroupSrc[1].markers)
    => /\ result = Err(ConflictErr)
       /\ CallsOf(2) = <<>>

\* C2 amended: with `ignore` in the first of two groups, Field::new always
\* fails and no classifier is invoked; the error is the ignore conflict
\* error when both groups parsed, and otherwise the parse failure of the
\* first group that did not parse.
C2_IgnoreFirstFails ==
    (/\ pc = "done"
     /\ Len(GroupSrc) = 2
     /\ "ignore" \in GroupSrc[1].markers)
    => /\ result.status = "Err"
       /\ calls = <<>>
       /\ result.err = IF ~Parses(GroupSrc[1]) THEN ParseErr(GroupSrc[1])
                       ELSE IF ~Parses(GroupSrc[2]) THEN ParseErr(GroupSrc[2])
                       ELSE ConflictErr

C2_Witness ==
    /\ pc = "done"
    /\ Len(GroupSrc) = 2
    /\ "ignore" \in GroupSrc[1].markers
    /\ Parses(GroupSrc[1])
    /\ Parses(GroupSrc[2])
    /\ "scalar" \in GroupSrc[2].markers
    /\ result = Err(ConflictErr)

\* C3: a member that uses `ignore` in any of its groups, at any position,
\* and has another group never succeeds: a successful result for a member
\* that uses `ignore` is exactly the single Ignore descriptor.
C3_IgnoreWithOtherGroupFails ==
    (/\ pc = "done"
     /\ result.status = "Ok"
     /\ \E g \in 1 .. Len(GroupSrc) : "ignore" \in GroupSrc[g].markers)
    => /\ Len(GroupSrc) = 1
       /\ result.fields = <<IgnoreField>>

\* C4: on every classified group the classifiers are invoked in the order
\* Scalar, Message, Map, Oneof, Group up to the first that does not answer
\* "no match"; a match gives the descriptor of the group, an error is the
\* member's error, and five "no match" give "no type attribute".
C4_FirstMatchingKindWins ==
    /\ \A g \in 1 .. Len(fields) : fields[g].kind # "Ignore" => CallsOf(g) # <<>>
    /\ \A g \in 1 .. Len(nested_attrs) :
         LET cs == CallsOf(g)
             n == Len(cs)
             last == Classify(cs[n][2], nested_attrs[g].attrs, cs[n][3])
         IN  cs # <<>> =>
               /\ n <= Len(FixedOrder)
               /\ \A j \in 1 .. n : cs[j][2] = FixedOrder[j]
               /\ \A j \in 1 .. n - 1 :
                    Classify(cs[j][2], nested_attrs[g].attrs, cs[j][3]).res = "none"
               /\ last.res = "some" =>
                    \/ Len(fields) >= g /\ fields[g] = last.field
                    \/ result = Panic
               /\ last.res = "err" => result = Err(last.err) /\ Len(fields) = g - 1
               /\ last.res = "none" =>
                    /\ n = Len(FixedOrder)
                    /\ result = Err("no type attribute")
                    /\ Len(fields) = g - 1

C4_Witness ==
    /\ pc = "done"
    /\ Len(GroupSrc) = 1
    /\ {"message", "oneof", "group"} \subseteq GroupSrc[1].markers
    /\ result.status = "Ok"
    /\ result.fields[1].kind = "Message"
    /\ Len(calls) = 2

\* C7: groups are processed in encounter order up to the first failing one:
\* a group's parse failure is returned only when the groups before it have
\* been processed, the error is that of the earliest failing group, no
\* later group is classified, and the result is an error without
\* descriptors or one descriptor for every group.
C7_StopsAtFirstFailingGroup ==
    /\ \A j \in 1 .. Len(calls) - 1 : calls[j][1] <= calls[j + 1][1]
    /\ \A j \in 1 .. Len(calls) : calls[j][1] <= idx
    /\ (pc = "done" /\ result.status = "Err") =>
         /\ idx <= Len(GroupSrc)
         /\ Len(fields) = idx - 1
         /\ \A g \in 1 .. idx - 1 :
              /\ Parses(GroupSrc[g])
              /\ "ignore" \notin GroupSrc[g].markers => CallsOf(g) # <<>>
         /\ ~Parses(GroupSrc[idx]) => result.err = ParseErr(GroupSrc[idx])
         /\ result.err \in {"parse", "literal"} => ~Parses(GroupSrc[idx])
         /\ result.fields = <<>>
    /\ (pc = "done" /\ result.status = "Ok") =>
         /\ result.fields = fields
         /\ Len(fields) = Len(GroupSrc)
         /\ \A g \in 1 .. Len(GroupSrc) : Parses(GroupSrc[g])

C7_Witness ==
    /\ pc = "done"
    /\ Len(GroupSrc) = 3
    /\ idx = 2
    /\ ~Parses(GroupSrc[2])
    /\ ~Parses(GroupSrc[3])
    /\ ParseErr(GroupSrc[3]) # ParseErr(GroupSrc[2])
    /\ result = Err(ParseErr(GroupSrc[2]))
    /\ CallsOf(1) # <<>>
    /\ Len(fields) = 1

\* C8: foreign attachments never influence Field::new: the groups it
\* processes are those of the member with its foreign attachments removed,
\* so that no foreign attachment yields a group or an error.
C8_ForeignAttachmentsIgnored ==
    pc = "done" => nested_attrs = prost_nested_attrs(SelectSeq(attrs, IsProst))

\* C10: in a successful result the Ignore descriptor occurs only as the
\* last element (hence at most once), and the list holds one descriptor
\* for every group, in encounter order.
C10_IgnoreOnlyLast ==
    (pc = "done" /\ result.status = "Ok") =>
        /\ Len(result.fields) = Len(GroupSrc)
        /\ \A g \in 1 .. Len(result.fields) :
             /\ result.fields[g].kind = "Ignore" => g = Len(result.fields)
             /\ result.fields[g].kind = "Ignore" <=> "ignore" \in GroupSrc[g].markers
             /\ result.fields[g].kind # "Ignore" =>
                  KindMarker(result.fields[g].kind) \in GroupSrc[g].markers

C10_Witness ==
    /\ pc = "done"
    /\ result.status = "Ok"
    /\ Len(result.fields) = 3
    /\ result.fields[3].kind = "Ignore"
    /\ result.fields[1].kind = "Scalar"
    /\ result.fields[2].kind = "Oneof"

\* C5: new_oneof tries Scalar, Message, Map, Group in that order and yields
\* no Oneof or Ignore descriptor; a group with only the Message marker is a
\* Message descriptor; every group that carries `ignore` fails with "no type
\* attribute for oneof field".
C5_OneofRejectsIgnore ==
    pc = "done" =>
        /\ Len(calls) <= Len(OneofFixedOrder)
        /\ \A j \in 1 .. Len(calls) : calls[j][2] = OneofFixedOrder[j]
        /\ result.status = "Ok" =>
             result.fields[1].kind \in {"Scalar", "Message", "Map", "Group"}
        /\ (metas.markers = {"message"} /\ ~metas.bad) =>
             (result.status = "Ok" /\ result.fields[1].kind = "Message")
        /\ "ignore" \in metas.markers =>
             result = Err("no type attribute for oneof field")

\* C6: a bare literal item in a prost attachment is a hard error: whenever
\* an attachment of the member holds one, the function fails.
C6_LiteralIsHardError ==
    (/\ pc = "done"
     /\ \E k \in 1 .. Len(attrs) :
           attrs[k].path = "prost" /\ attrs[k].form = "list" /\ attrs[k].lit)
    => result.status = "Err"

OptionCalls == SelectSeq(history, LAMBDA c : c[1] = "set_option")
BoolCalls == SelectSeq(history, LAMBDA c : c[1] = "set_bool")

\* C9: of any sequence of calls on one slot only the first store is
\* accepted: the slot holds the first value ever passed to set_option, a
\* later set_option call fails with the held value and its own value, and
\* set_bool succeeds exactly on its first call and leaves the flag true.
C9_FirstStoreWins ==
    /\ option = IF OptionCalls = <<>> THEN None ELSE Some(OptionCalls[1][2])
    /\ b = (BoolCalls # <<>>)
    /\ history # <<>> =>
         LET last == history[Len(history)]
         IN  IF last[1] = "set_option"
             THEN /\ outcome.fn = "set_option"
                  /\ outcome.ok = (Len(OptionCalls) = 1)
                  /\ ~outcome.ok =>
                       /\ outcome.existing = Some(OptionCalls[1][2])
                       /\ outcome.value = Some(last[2])
             ELSE /\ outcome.fn = "set_bool"
                  /\ outcome.ok = (Len(BoolCalls) = 1)

C9_Witness ==
    /\ Len(OptionCalls) >= 2
    /\ Len(BoolCalls) >= 2
    /\ history[Len(history)][1] = "set_option"
    /\ history[Len(history)][2] # OptionCalls[1][2]
    /\ ~outcome.ok
    /\ option = Some(OptionCalls[1][2])
    /\ b

====
